---------------------------- MODULE Spec2Model ----------------------------
(***************************************************************************)
(* A model of the stack-tabs extension (src/src/extension.ts): the         *)
(* TabStacker position calculator, its options resolver, the stackTab      *)
(* operation and the wiring that activate() installs around it.            *)
(*                                                                         *)
(* Conventions.                                                            *)
(*  - A JavaScript value that may be undefined is a set: {} is undefined   *)
(*    and {v} is the value v.                                              *)
(*  - A JavaScript array is a sequence; every index that appears in an     *)
(*    operator's parameters or result is the 0-based index of the source,  *)
(*    and At(a, i) reads a[i].                                             *)
(*  - A vscode.Tab object is a record; its field ref is the object's       *)
(*    identity (what === and Array.prototype.indexOf compare).             *)
(***************************************************************************)
EXTENDS Integers, Sequences, FiniteSets, TLC

VARIABLES
    tabGroupsApi,   \* host: whether vscode.window.tabGroups exists
    groupTabs,      \* host: the active tab group's tabs, in display order
    config,         \* host: the extension's section of the settings
    defaultOptions, \* TabStacker.defaultOptions
    inThrottle,     \* the flag of the throttle() closure around stackTab
    moveCmds,       \* executeCommand("moveActiveEditor", args) calls in flight
    gspArgs,        \* the arguments of a direct call of getStackPosition
    gspResult,      \* what that call returned
    gspDone,        \* whether the call has been made
    gspMoves,       \* how many moves were applied to the arguments since
    activeFolder,   \* host: fsPath of the active editor's workspace folder
    resolvedFilters,\* the constructor's resolvedFilters: token -> expansion
    predCall        \* the last direct call of isBlockingPredicate

sysVars ==
    <<tabGroupsApi, groupTabs, config, defaultOptions, inThrottle, moveCmds>>

posVars == <<gspArgs, gspResult, gspDone, gspMoves>>

predVars == <<activeFolder, resolvedFilters, predCall>>

vars == <<sysVars, posVars, predVars>>

---------------------------------------------------------------------------
(* Bounds of the model *)

\* The most tabs in an array passed to getStackPosition
MaxTabs == 4

\* The largest padding
MaxPadding == 2

\* The most tabs the host's group holds
MaxOpen == 3

\* The most moveActiveEditor calls in flight
MaxInFlight == 1

---------------------------------------------------------------------------
(* JavaScript helpers *)

Undefined == {}

Some(v) == {v}

IsDefined(o) == o # {}

Val(o) == CHOOSE v \in o : TRUE

Max(a, b) == IF a >= b THEN a ELSE b

Abs(a) == IF a < 0 THEN -a ELSE a

\* a[i] for a 0-based index i: undefined outside the array
At(a, i) == IF i \in 0..(Len(a) - 1) THEN Some(a[i + 1]) ELSE Undefined

\* Mutant of FindLastLess: Array.prototype.find, the first hit
FindLess(a, limit) ==
    LET hits == {k \in 1..Len(a) : a[k] < limit}
    IN  IF hits = {} THEN Undefined
        ELSE Some(a[CHOOSE k \in hits : \A j \in hits : k <= j])

\* filteredIndexes.findLast((index) => index < limit)
FindLastLess(a, limit) ==
    LET hits == {k \in 1..Len(a) : a[k] < limit}
    IN  IF hits = {} THEN Undefined
        ELSE Some(a[CHOOSE k \in hits : \A j \in hits : k >= j])

\* Mutant of FindGreater: Array.prototype.findLast, the last hit
FindLastGreater(a, limit) ==
    LET hits == {k \in 1..Len(a) : a[k] > limit}
    IN  IF hits = {} THEN Undefined
        ELSE Some(a[CHOOSE k \in hits : \A j \in hits : k >= j])

\* filteredIndexes.find((index) => index > limit)
FindGreater(a, limit) ==
    LET hits == {k \in 1..Len(a) : a[k] > limit}
    IN  IF hits = {} THEN Undefined
        ELSE Some(a[CHOOSE k \in hits : \A j \in hits : k <= j])

\* tabs.indexOf(tab): the first index holding the same object, or -1
IndexOf(tabs, tab) ==
    LET hits == {k \in 1..Len(tabs) : tabs[k].ref = tab.ref}
    IN  IF hits = {} THEN -1
        ELSE (CHOOSE k \in hits : \A j \in hits : k <= j) - 1

---------------------------------------------------------------------------
(* Filters *)

defaultBlockMoveFilters == <<"pinned">>

\* The keys of TabStacker.filterMap that the model's tabs can satisfy
FilterMapKeys == {"pinned", "dirty"}

\* this.filterMap[f](tab)
filterMap(f, tab) ==
    CASE f = "pinned" -> tab.isPinned
      [] f = "dirty"  -> tab.isDirty
      [] OTHER        -> FALSE

\* The closure built in the constructor, for tokens without a custom
\* prefix: true iff some token of options.blockMoveFilters names a
\* filterMap entry that holds of the tab.
isBlockingPredicate(tab, options) ==
    \E k \in 1..Len(options.blockMoveFilters) :
        LET f == options.blockMoveFilters[k]
        IN  f \in FilterMapKeys /\ filterMap(f, tab)

\* tabs.filter(pred).map((tab) => tabs.indexOf(tab))
blockingTabIndexes(tabs, options) ==
    LET kept == SelectSeq(tabs, LAMBDA t : isBlockingPredicate(t, options))
    IN  [k \in 1..Len(kept) |-> IndexOf(tabs, kept[k])]

---------------------------------------------------------------------------
(* Custom filters: tokens with a prefix, matched with micromatch.  The     *)
(* strings of the model are a finite set, and the string functions of the  *)
(* source (startsWith, replace, trim, the variable substitution, the glob  *)
(* match) are given by their values on that set.                           *)

\* filterMapCustom.map((f) => f.prefix), in the array's order
CustomPrefixes == <<"title:", "path:", "lang:">>

\* filter.startsWith(prefix)
StartsWith(filter, prefix) ==
    CASE prefix = "title:" -> filter \in {"title:", "title:*.md"}
      [] prefix = "path:"  -> filter \in {"path:", "path:${workspaceFolder}/**",
                                          "path:/**", "path:/w1/**", "path:/w2/**"}
      [] prefix = "lang:"  -> filter \in {"lang:typescript"}
      [] OTHER             -> FALSE

\* filter.replace(prefix, "").trim(), for a filter that starts with prefix
PatternOf(filter, prefix) ==
    CASE filter = "title:*.md"                 -> "*.md"
      [] filter = "path:${workspaceFolder}/**" -> "${workspaceFolder}/**"
      [] filter = "path:/**"                   -> "/**"
      [] filter = "path:/w1/**"                -> "/w1/**"
      [] filter = "path:/w2/**"                -> "/w2/**"
      [] filter = "lang:typescript"            -> "typescript"
      [] OTHER                                 -> ""

\* variables.workspaceFolder({}): the fsPath of the workspace folder of the
\* active editor's file, "" without one
workspaceFolder(folder) == IF folder = Undefined THEN "" ELSE Val(folder)

\* resolveVariables(value) when the active editor's workspace folder is
\* folder (undefined: no active file, or one outside the workspace): every ${workspaceFolder} is replaced (the strings of the model
\* hold no other variable)
resolveVariables(value, folder) ==
    IF value = "path:${workspaceFolder}/**"
    THEN CASE workspaceFolder(folder) = ""    -> "path:/**"
           [] workspaceFolder(folder) = "/w1" -> "path:/w1/**"
           [] workspaceFolder(folder) = "/w2" -> "path:/w2/**"
    ELSE value

\* Whether micromatch.isMatch(subject, pattern) throws: picomatch rejects an
\* empty pattern with a TypeError
isMatchThrows(subject, pattern) == pattern = ""

\* micromatch.isMatch(subject, pattern) when it returns
isMatch(subject, pattern) ==
    <<subject, pattern>> \in
        {<<"b.md", "*.md">>,
         <<"/w1/a.ts", "/**">>, <<"/w2/b.md", "/**">>,
         <<"/w1/a.ts", "/w1/**">>, <<"/w2/b.md", "/w2/**">>,
         <<"typescript", "typescript">>}

\* getTabUri(t)?.fsPath ?? ""
TabFsPath(tab) == IF tab.hasUri THEN tab.fsPath ELSE ""

\* The string a custom filter matches against, and whether the filter gets
\* as far as calling isMatch (the conjuncts before it hold)
CustomSubject(prefix, tab) ==
    CASE prefix = "title:" -> tab.label
      [] prefix = "path:"  -> TabFsPath(tab)
      [] prefix = "lang:"  -> tab.languageId

CustomCallsIsMatch(prefix, tab, filter) ==
    CASE prefix = "title:" -> StartsWith(filter, "title:")
      [] prefix = "path:"  -> StartsWith(filter, "path:")
      [] prefix = "lang:"  -> tab.isText /\ StartsWith(filter, "lang:")

\* customFilter.match(tab, filter) throws
CustomMatchThrows(prefix, tab, filter) ==
    /\ CustomCallsIsMatch(prefix, tab, filter)
    /\ isMatchThrows(CustomSubject(prefix, tab), PatternOf(filter, prefix))

\* customFilter.match(tab, filter) when it returns
CustomMatch(prefix, tab, filter) ==
    /\ CustomCallsIsMatch(prefix, tab, filter)
    /\ isMatch(CustomSubject(prefix, tab), PatternOf(filter, prefix))

\* hasPrefix(f)
hasPrefix(f) == \E k \in 1..Len(CustomPrefixes) : StartsWith(f, CustomPrefixes[k])

\* findCustomMap(filter): the prefix of the first custom filter that the
\* filter starts with
findCustomMap(filter) ==
    LET hits == {k \in 1..Len(CustomPrefixes) : StartsWith(filter, CustomPrefixes[k])}
    IN  IF hits = {} THEN Undefined
        ELSE Some(CustomPrefixes[CHOOSE k \in hits : \A j \in hits : k <= j])

\* The tokens resolvedFilters has an entry for: those that start with path:
PathTokens == {"path:", "path:${workspaceFolder}/**"}

\* const resolvedFilters = {}
EmptyResolvedFilters == [f \in PathTokens |-> Undefined]

\* The loop of the isBlockingPredicate closure from the token at place k on,
\* with resolved the closure's resolvedFilters and folder the focus context:
\* whether the call threw, the value it returned otherwise, and
\* resolvedFilters afterwards
RECURSIVE isBlockingPredicateFrom(_, _, _, _, _)
isBlockingPredicateFrom(k, tab, filters, resolved, folder) ==
    IF k > Len(filters)
    THEN [threw |-> FALSE, value |-> FALSE, resolved |-> resolved]
    ELSE
        LET f == filters[k]
            isPath == hasPrefix(f) /\ StartsWith(f, "path:")
            resolvedNow ==
                IF isPath /\ resolved[f] = Undefined
                THEN [resolved EXCEPT ![f] = Some(resolveVariables(f, folder))]
                ELSE resolved
            rFilter == IF isPath THEN Val(resolvedNow[f]) ELSE f
            customFilter == findCustomMap(rFilter)
        IN  IF /\ hasPrefix(f)
               /\ customFilter # Undefined
               /\ CustomMatchThrows(Val(customFilter), tab, rFilter)
            THEN [threw |-> TRUE, value |-> FALSE, resolved |-> resolvedNow]
            ELSE IF /\ hasPrefix(f)
                    /\ customFilter # Undefined
                    /\ CustomMatch(Val(customFilter), tab, rFilter)
            THEN [threw |-> FALSE, value |-> TRUE, resolved |-> resolvedNow]
            ELSE IF f \in FilterMapKeys /\ filterMap(f, tab)
            THEN [threw |-> FALSE, value |-> TRUE, resolved |-> resolvedNow]
            ELSE isBlockingPredicateFrom(k + 1, tab, filters, resolvedNow, folder)

\* this.isBlockingPredicate(tab, options) for any tokens
isBlockingPredicateCall(tab, options, resolved, folder) ==
    isBlockingPredicateFrom(1, tab, options.blockMoveFilters, resolved, folder)

---------------------------------------------------------------------------
(* The position calculator *)

\* Mutant of ApplyPadding: the subtraction without the clamp at 0
ApplyPadding_NoClamp(moveDelta, padding) ==
    IF IsDefined(padding) /\ Val(padding) # 0
    THEN moveDelta - Val(padding)
    ELSE moveDelta

\* if (padding) { moveDelta = Math.max(0, moveDelta - padding); }
ApplyPadding(moveDelta, padding) ==
    IF IsDefined(padding) /\ Val(padding) # 0
    THEN Max(0, moveDelta - Val(padding))
    ELSE moveDelta

\* Mutant of MoveDeltaLeft: the distance counts the blocking tab's own slot
MoveDeltaLeft_OntoBlocker(currentTabIndex, tabs, filteredIndexes) ==
    LET blockingIndex == FindLastLess(filteredIndexes, currentTabIndex)
    IN  IF blockingIndex = Undefined
        THEN Abs(0 - currentTabIndex)
        ELSE currentTabIndex - Val(blockingIndex)

\* case "left"
MoveDeltaLeft(currentTabIndex, tabs, filteredIndexes) ==
    LET blockingIndex == FindLastLess(filteredIndexes, currentTabIndex)
    IN  IF blockingIndex = Undefined
        THEN Abs(0 - currentTabIndex)
        ELSE currentTabIndex - Val(blockingIndex) - 1

\* Mutant of MoveDeltaRight: no blocking tab to the right leaves moveDelta
\* at its initial -1
MoveDeltaRight_NoEdge(currentTabIndex, tabs, filteredIndexes) ==
    LET blockingIndex == FindGreater(filteredIndexes, currentTabIndex)
    IN  IF blockingIndex = Undefined
        THEN -1
        ELSE Val(blockingIndex) - currentTabIndex - 1

\* case "right"
MoveDeltaRight(currentTabIndex, tabs, filteredIndexes) ==
    LET blockingIndex == FindGreater(filteredIndexes, currentTabIndex)
    IN  IF blockingIndex = Undefined
        THEN Len(tabs) - currentTabIndex - 1
        ELSE Val(blockingIndex) - currentTabIndex - 1

\* Mutant of IsBlockedFromStacking: only the range test
IsBlockedFromStacking_RangeOnly(currentTabIndex, tabs, options) ==
    At(tabs, currentTabIndex) = Undefined

\* The test that refuses a tab that is absent or itself blocking
IsBlockedFromStacking(currentTabIndex, tabs, options) ==
    \/ At(tabs, currentTabIndex) = Undefined
    \/ isBlockingPredicate(Val(At(tabs, currentTabIndex)), options)

getStackPosition(currentTabIndex, tabs, options) ==
    IF IsBlockedFromStacking(currentTabIndex, tabs, options)
    THEN Undefined
    ELSE
        LET filteredIndexes == blockingTabIndexes(tabs, options)
            direction == options.direction
            padding == options.padding
            moveDelta ==
                CASE direction = Some("left") ->
                        ApplyPadding(
                            MoveDeltaLeft(currentTabIndex, tabs, filteredIndexes),
                            padding)
                  [] direction = Some("right") ->
                        ApplyPadding(
                            MoveDeltaRight(currentTabIndex, tabs, filteredIndexes),
                            padding)
                  [] OTHER -> -1
        IN  IF moveDelta < 0 THEN Undefined ELSE Some(moveDelta)

---------------------------------------------------------------------------
(* Options *)

\* Number(value) and Boolean(value) of getCfgValue, on settings of the
\* declared type (a number, a boolean): the value itself
NumberOf(value) == value + 0

BooleanOf(value) == (value = TRUE)

\* getCfgValue(key, type, cfg): undefined when the key is not set
getCfgValue(key, type, cfg) ==
    IF cfg[key] = Undefined THEN Undefined
    ELSE CASE type = "number"  -> Some(NumberOf(Val(cfg[key])))
           [] type = "boolean" -> Some(BooleanOf(Val(cfg[key])))
           [] OTHER            -> cfg[key]

\* The default value of the constructor's parameter defaultOptions
ConstructorDefaultOptions ==
    [blockMoveFilters |-> defaultBlockMoveFilters,
     direction |-> Undefined,
     padding |-> Undefined,
     enabled |-> Some(TRUE)]

\* getOptions(scope) over a given settings section and a given
\* this.defaultOptions.  The host of the model has one settings section:
\* every defined scope (null, a workspace folder, a resource) reads it.
getOptionsIn(cfg, dflt, scope) ==
    IF scope # Undefined
    THEN [blockMoveFilters |->
              LET v == getCfgValue("blockMoveFilters", "undefined", cfg)
              IN  IF v = Undefined THEN <<>> ELSE Val(v),
          direction |-> getCfgValue("direction", "string", cfg),
          padding |-> getCfgValue("padding", "number", cfg),
          enabled |-> getCfgValue("enabled", "boolean", cfg)]
    ELSE dflt

getOptions(scope) == getOptionsIn(config, defaultOptions, scope)

\* loadOptions(scope): the new value of this.defaultOptions, read from the
\* settings section cfg
loadOptions(cfg, scope) ==
    getOptionsIn(cfg, defaultOptions,
                 IF scope = Undefined THEN Some("null") ELSE scope)

getMoveDirectionOption(scope) ==
    LET options == getOptions(scope)
    IN  IF options.direction = Undefined \/ options.direction = Some("auto")
        THEN "left"
        ELSE IF Val(options.direction) \in {"left", "right"}
             THEN Val(options.direction)
             ELSE "left"

getEnabledOption(scope) ==
    LET options == getOptions(scope)
    IN  IF options.enabled = Undefined THEN TRUE ELSE Val(options.enabled)

getPaddingOption(scope) ==
    LET options == getOptions(scope)
    IN  IF options.padding = Undefined THEN 0 ELSE Val(options.padding)

\* Mutant of getBlockMoveFiltersOption: the defaults are merged into the
\* configured list instead of replacing it
getBlockMoveFiltersOption_Merge(scope) ==
    LET options == getOptions(scope)
    IN  IF \E k \in 1..Len(options.blockMoveFilters) :
              \E d \in 1..Len(defaultBlockMoveFilters) :
                  options.blockMoveFilters[k] = defaultBlockMoveFilters[d]
        THEN options.blockMoveFilters
        ELSE options.blockMoveFilters \o defaultBlockMoveFilters

getBlockMoveFiltersOption(scope) ==
    LET options == getOptions(scope)
    IN  IF \E k \in 1..Len(options.blockMoveFilters) :
              \E d \in 1..Len(defaultBlockMoveFilters) :
                  options.blockMoveFilters[k] = defaultBlockMoveFilters[d]
        THEN options.blockMoveFilters
        ELSE defaultBlockMoveFilters

---------------------------------------------------------------------------
(* stackTab *)

\* getTabs(): the active group's Tab objects (distinct objects, named here
\* by their place in the group), or undefined without vscode.window.tabGroups
getTabs(group) ==
    IF tabGroupsApi
    THEN Some([k \in 1..Len(group) |-> [ref |-> k] @@ group[k]])
    ELSE Undefined

\* tabs.findIndex((t) => t.isActive)
FindIndexActive(ts) ==
    LET hits == {k \in 1..Len(ts) : ts[k].isActive}
    IN  IF hits = {} THEN -1
        ELSE (CHOOSE k \in hits : \A j \in hits : k <= j) - 1

\* getTabUri(tab): the uri of a text, notebook or custom tab, else undefined
getTabUri(tab) == IF tab.hasUri THEN Some("uri") ELSE Undefined

\* The options stackTab builds for the active tab
StackTabOptions(tab) ==
    LET uri == getTabUri(tab)
    IN  [blockMoveFilters |-> getBlockMoveFiltersOption(uri),
         direction |-> Some(getMoveDirectionOption(uri)),
         padding |-> Some(getPaddingOption(uri))]

\* Mutant of ShouldReturnWithoutMove: only an undefined value returns
ShouldReturnWithoutMove_ZeroMoves(value) == value = Undefined

\* args.value === undefined || args.value <= 0
ShouldReturnWithoutMove(value) == value = Undefined \/ Val(value) <= 0

\* stackTab() when the host shows group: the
\* executeCommand("moveActiveEditor", args) calls it makes, as a sequence of
\* their args (empty, or one call)
stackTab(group) ==
    LET ts == getTabs(group)
    IN  IF ts = Undefined THEN <<>>
        ELSE
            LET currentTabIndex == FindIndexActive(Val(ts))
            IN  IF currentTabIndex = -1 THEN <<>>
                ELSE
                    LET tab == Val(ts)[currentTabIndex + 1]
                        options == StackTabOptions(tab)
                        value == getStackPosition(currentTabIndex, Val(ts), options)
                    IN  IF ShouldReturnWithoutMove(value) THEN <<>>
                        ELSE <<[to |-> "position", by |-> "tab", value |-> Val(value)]>>

---------------------------------------------------------------------------
(* The host *)

\* The index a moveActiveEditor by tab sends the active editor to
MoveTargetIndex(index, count, args) ==
    LET wanted ==
            CASE args.to = "first"    -> 0
              [] args.to = "last"     -> count - 1
              [] args.to = "left"     -> index - args.value
              [] args.to = "right"    -> index + args.value
              [] args.to = "position" -> args.value - 1
              [] OTHER                -> index
    IN  IF wanted < 0 THEN 0 ELSE IF wanted >= count THEN count - 1 ELSE wanted

\* A sequence with the element at 1-based place from moved to place to
MoveElement(seq, from, to) ==
    LET without == [k \in 1..(Len(seq) - 1) |-> IF k < from THEN seq[k] ELSE seq[k + 1]]
    IN  [k \in 1..Len(seq) |->
            IF k < to THEN without[k]
            ELSE IF k = to THEN seq[from]
            ELSE without[k - 1]]

\* The group after the host runs moveActiveEditor with args: the active tab
\* goes to the target index, and a tab moved in among the pinned tabs (which
\* the host keeps first) becomes pinned.
HostMoveActiveEditor(ts, args) ==
    LET index == FindIndexActive(ts)
    IN  IF index = -1 \/ args.by # "tab" THEN ts
        ELSE
            LET target == MoveTargetIndex(index, Len(ts), args)
                lastPinned == Cardinality({k \in 1..Len(ts) : ts[k].isPinned}) - 1
                moved == MoveElement(ts, index + 1, target + 1)
            IN  IF target = index THEN ts
                ELSE [moved EXCEPT ![target + 1].isPinned =
                          IF ts[index + 1].isPinned
                          THEN ~(target > lastPinned)
                          ELSE target <= lastPinned]

---------------------------------------------------------------------------
(* Direct calls of getStackPosition: the inputs are drawn from bounded     *)
(* sets and one action applies the function.                               *)

TabFlags == [isPinned : BOOLEAN, isDirty : BOOLEAN]

\* A tab array as the host hands it out: distinct objects, in display order
WithRefs(flags) ==
    [k \in 1..Len(flags) |->
        [ref |-> k, isPinned |-> flags[k].isPinned, isDirty |-> flags[k].isDirty]]

TabArrays ==
    UNION {{WithRefs(s) : s \in [1..n -> TabFlags]} : n \in 0..MaxTabs}

FilterLists == {<<"pinned">>, <<"dirty">>, <<"pinned", "dirty">>}

DirectionOptions == {Undefined, Some("left"), Some("right"), Some("auto")}

PaddingOptions == {Undefined} \cup {Some(p) : p \in 0..MaxPadding}

GspOptions ==
    [blockMoveFilters : FilterLists,
     direction : DirectionOptions,
     padding : PaddingOptions]

\* The settings section with nothing set
EmptyConfig ==
    [blockMoveFilters |-> Undefined, direction |-> Undefined,
     padding |-> Undefined, enabled |-> Undefined]

\* workspace.workspaceFolders?.[0]
WorkspaceFolder0 == Some("folder")

\* The extension just activated in a host with no tab open and nothing set
InitIdle ==
    /\ tabGroupsApi = TRUE
    /\ groupTabs = <<>>
    /\ config = EmptyConfig
    /\ defaultOptions = getOptionsIn(config, ConstructorDefaultOptions, WorkspaceFolder0)
    /\ inThrottle = FALSE
    /\ moveCmds = <<>>

\* No editor is active and the predicate has not been called
InitPredIdle ==
    /\ activeFolder = Undefined
    /\ resolvedFilters = EmptyResolvedFilters
    /\ predCall = Undefined

InitPos ==
    /\ InitIdle
    /\ InitPredIdle
    /\ gspMoves = 0
    /\ gspArgs \in [currentTabIndex : (-1)..MaxTabs,
                    tabs : TabArrays,
                    options : GspOptions]
    /\ gspResult = Undefined
    /\ gspDone = FALSE

CallGetStackPosition ==
    /\ ~gspDone
    /\ gspResult' = getStackPosition(gspArgs.currentTabIndex, gspArgs.tabs,
                                     gspArgs.options)
    /\ gspDone' = TRUE
    /\ UNCHANGED <<gspArgs, gspMoves, sysVars, predVars>>

NextPos == CallGetStackPosition

SpecPos == InitPos /\ [][NextPos]_vars

---------------------------------------------------------------------------
(* A direct call of getStackPosition followed by the move it asks for:     *)
(* the host moves the tab the answered distance in the call's direction,   *)
(* and getStackPosition is called on the tabs as they are then.            *)

\* The most moves applied to the arguments of a call
MaxMoves == 2

\* The host moves the tab at currentTabIndex by the returned distance in
\* the direction of the call (moveActiveEditor by tab, to left or right);
\* the other tabs keep their order and their flags
MoveByResult ==
    /\ gspDone
    /\ gspResult # Undefined
    /\ Val(gspResult) > 0
    /\ gspMoves < MaxMoves
    /\ LET index == gspArgs.currentTabIndex
           target == MoveTargetIndex(index, Len(gspArgs.tabs),
                                     [to |-> Val(gspArgs.options.direction),
                                      by |-> "tab",
                                      value |-> Val(gspResult)])
       IN  gspArgs' = [gspArgs EXCEPT
                          !.tabs = MoveElement(@, index + 1, target + 1),
                          !.currentTabIndex = target]
    /\ gspResult' = Undefined
    /\ gspDone' = FALSE
    /\ gspMoves' = gspMoves + 1
    /\ UNCHANGED <<sysVars, predVars>>

NextMove ==
    \/ CallGetStackPosition
    \/ MoveByResult

SpecMove == InitPos /\ [][NextMove]_vars

---------------------------------------------------------------------------
(* The extension in its host: activate() has run, the command, the focus   *)
(* listener and the configuration listener are installed.                  *)

\* The tabs of the host, four kinds: a text tab (with a uri) that is clean,
\* dirty or pinned, and a terminal tab (no uri, never dirty, unpinned)
HostTabs ==
    {t \in [isPinned : BOOLEAN, isDirty : BOOLEAN, hasUri : BOOLEAN,
            isActive : BOOLEAN] :
        /\ ~t.hasUri => (~t.isPinned /\ ~t.isDirty)
        /\ t.isPinned => ~t.isDirty}

\* The groups the host can show: pinned tabs first, and exactly one active
\* tab unless the group is empty
HostGroups ==
    UNION {{g \in [1..n -> HostTabs] :
                /\ \A j, k \in 1..n : (j < k /\ g[k].isPinned) => g[j].isPinned
                /\ n > 0 => \E k \in 1..n : \A j \in 1..n : g[j].isActive <=> j = k}
           : n \in 0..MaxOpen}

ConfigKeys == {"blockMoveFilters", "direction", "padding", "enabled"}

\* The values the user can give a setting (undefined: not set)
ConfigValues(key) ==
    CASE key = "blockMoveFilters" ->
                {Undefined, Some(<<"dirty">>), Some(<<"pinned", "dirty">>)}
      [] key = "direction"        -> DirectionOptions
      [] key = "padding"          -> {Undefined, Some(1), Some(MaxPadding)}
      [] key = "enabled"          -> {Undefined, Some(FALSE)}

ConfigSections ==
    [blockMoveFilters : ConfigValues("blockMoveFilters"),
     direction : ConfigValues("direction"),
     padding : ConfigValues("padding"),
     enabled : ConfigValues("enabled")]

Init ==
    /\ tabGroupsApi \in BOOLEAN
    /\ groupTabs \in (IF tabGroupsApi THEN HostGroups ELSE {<<>>})
    /\ config \in ConfigSections
    /\ defaultOptions = getOptionsIn(config, ConstructorDefaultOptions, WorkspaceFolder0)
    /\ inThrottle = FALSE
    /\ moveCmds = <<>>
    /\ gspArgs = [currentTabIndex |-> -1, tabs |-> <<>>,
                  options |-> [blockMoveFilters |-> defaultBlockMoveFilters,
                               direction |-> Undefined, padding |-> Undefined]]
    /\ gspResult = Undefined
    /\ gspDone = FALSE
    /\ gspMoves = 0
    /\ InitPredIdle

\* throttledStackTab() when the host shows group: stackTab() unless a call
\* ran less than ms ago
ThrottledStackTab(group) ==
    IF ~inThrottle
    THEN /\ Len(moveCmds) < MaxInFlight
         /\ moveCmds' = moveCmds \o stackTab(group)
         /\ inThrottle' = TRUE
    ELSE UNCHANGED <<moveCmds, inThrottle>>

\* The user runs the command stackTabs.stackTab: its handler (the extension
\* is active) calls throttledStackTab
StackTabCommand ==
    /\ ThrottledStackTab(groupTabs)
    /\ UNCHANGED <<tabGroupsApi, groupTabs, config, defaultOptions, posVars, predVars>>

\* The user focuses the tab at place k; the onDidChangeActiveTextEditor
\* listener executes stackTabs.stackTab, whose handler runs in the
\* extension host within the call
ChangeActiveTextEditor(k) ==
    /\ k \in 1..Len(groupTabs)
    /\ ~groupTabs[k].isActive
    /\ groupTabs' = [j \in 1..Len(groupTabs) |->
                        [groupTabs[j] EXCEPT !.isActive = (j = k)]]
    /\ ThrottledStackTab(groupTabs')
    /\ UNCHANGED <<tabGroupsApi, config, defaultOptions, posVars, predVars>>

\* setTimeout(() => (inThrottle = false), ms)
ThrottleTimer ==
    /\ inThrottle
    /\ inThrottle' = FALSE
    /\ UNCHANGED <<tabGroupsApi, groupTabs, config, defaultOptions, moveCmds,
                   posVars, predVars>>

\* The host runs the oldest moveActiveEditor call
RunMoveActiveEditor ==
    /\ moveCmds # <<>>
    /\ groupTabs' = HostMoveActiveEditor(groupTabs, Head(moveCmds))
    /\ moveCmds' = Tail(moveCmds)
    /\ UNCHANGED <<tabGroupsApi, config, defaultOptions, inThrottle, posVars, predVars>>

\* The user changes one setting; the onDidChangeConfiguration listener
\* reloads the options
ChangeConfiguration(key, value) ==
    /\ config[key] # value
    /\ config' = [config EXCEPT ![key] = value]
    /\ defaultOptions' = loadOptions(config', WorkspaceFolder0)
    /\ UNCHANGED <<tabGroupsApi, groupTabs, inThrottle, moveCmds, posVars, predVars>>

Next ==
    \/ StackTabCommand
    \/ \E k \in 1..MaxOpen : ChangeActiveTextEditor(k)
    \/ ThrottleTimer
    \/ RunMoveActiveEditor
    \/ \E key \in ConfigKeys : \E value \in ConfigValues(key) :
            ChangeConfiguration(key, value)

Spec == Init /\ [][Next]_vars

---------------------------------------------------------------------------
(* Direct calls of the isBlockingPredicate closure: the singleton has been *)
(* constructed and activate() has installed the configuration listener;    *)
(* the user changes the filter setting and the focus, and the closure is   *)
(* called on a tab with the filters stackTab would pass.                   *)

\* The most tokens in a configured filter list
MaxFilters == 2

\* The tokens the user puts in the setting
FilterTokens ==
    {"pinned", "dirty", "title:", "path:",
     "path:${workspaceFolder}/**", "lang:typescript"}

\* The values of the setting blockMoveFilters: unset, or a list of tokens
PredFilterSettings ==
    {Undefined} \cup
    UNION {{Some(l) : l \in [1..n -> FilterTokens]} : n \in 1..MaxFilters}

\* The host's tabs the closure is called on: two text tabs (one in each
\* workspace folder) and a terminal
PredTabs ==
    {[label |-> "a.ts", hasUri |-> TRUE, isText |-> TRUE, fsPath |-> "/w1/a.ts",
      languageId |-> "typescript", isPinned |-> FALSE, isDirty |-> FALSE],
     [label |-> "a.ts", hasUri |-> TRUE, isText |-> TRUE, fsPath |-> "/w1/a.ts",
      languageId |-> "typescript", isPinned |-> TRUE, isDirty |-> FALSE],
     [label |-> "b.md", hasUri |-> TRUE, isText |-> TRUE, fsPath |-> "/w2/b.md",
      languageId |-> "markdown", isPinned |-> FALSE, isDirty |-> FALSE],
     [label |-> "b.md", hasUri |-> TRUE, isText |-> TRUE, fsPath |-> "/w2/b.md",
      languageId |-> "markdown", isPinned |-> FALSE, isDirty |-> TRUE],
     [label |-> "bash", hasUri |-> FALSE, isText |-> FALSE, fsPath |-> "",
      languageId |-> "", isPinned |-> FALSE, isDirty |-> FALSE]}

\* The workspace folders of the host (a multi-root workspace)
WorkspaceFolders == {"/w1", "/w2"}

InitPred ==
    /\ tabGroupsApi = TRUE
    /\ groupTabs = <<>>
    /\ config \in {[EmptyConfig EXCEPT !.blockMoveFilters = v] :
                        v \in PredFilterSettings}
    /\ defaultOptions = getOptionsIn(config, ConstructorDefaultOptions, WorkspaceFolder0)
    /\ inThrottle = FALSE
    /\ moveCmds = <<>>
    /\ gspArgs = [currentTabIndex |-> -1, tabs |-> <<>>,
                  options |-> [blockMoveFilters |-> defaultBlockMoveFilters,
                               direction |-> Undefined, padding |-> Undefined]]
    /\ gspResult = Undefined
    /\ gspDone = FALSE
    /\ gspMoves = 0
    /\ InitPredIdle

\* this.isBlockingPredicate(tab, options), with the blockMoveFilters that
\* stackTab resolves for the tab
CallIsBlockingPredicate(tab) ==
    LET options == [blockMoveFilters |-> getBlockMoveFiltersOption(getTabUri(tab))]
        call == isBlockingPredicateCall(tab, options, resolvedFilters, activeFolder)
    IN  /\ predCall' = Some([tab |-> tab, threw |-> call.threw, value |-> call.value])
        /\ resolvedFilters' = call.resolved
        /\ UNCHANGED <<activeFolder, sysVars, posVars>>

\* The user focuses an editor whose file is in another workspace folder, or
\* in none
ChangeActiveFolder(folder) ==
    /\ activeFolder # folder
    /\ activeFolder' = folder
    /\ UNCHANGED <<resolvedFilters, predCall, sysVars, posVars>>

NextPred ==
    \/ \E tab \in PredTabs : CallIsBlockingPredicate(tab)
    \/ \E folder \in {Undefined} \cup {Some(w) : w \in WorkspaceFolders} :
            ChangeActiveFolder(folder)
    \/ \E value \in PredFilterSettings :
            ChangeConfiguration("blockMoveFilters", value)

SpecPred == InitPred /\ [][NextPred]_vars

---------------------------------------------------------------------------
(* Properties of getStackPosition, stated over the direct calls.  The      *)
(* blocking indexes and the raw distance are written here from the         *)
(* description of the algorithm, not from getStackPosition.                *)

ArgIndex == gspArgs.currentTabIndex

ArgTabs == gspArgs.tabs

ArgLen == Len(gspArgs.tabs)

ArgDirection == gspArgs.options.direction

\* The padding of the call as a number: absent counts as 0
ArgPadding ==
    IF gspArgs.options.padding = Undefined THEN 0 ELSE Val(gspArgs.options.padding)

\* B: the indexes of the tabs of ts that satisfy the blocking predicate
\* under the filter tokens
BlockingIndexes(ts, filters) ==
    {i \in 0..(Len(ts) - 1) :
        isBlockingPredicate(ts[i + 1], [blockMoveFilters |-> filters])}

\* The raw move distance of the tab at index in ts: up to the nearest
\* blocking tab in the direction, or to the edge when there is none
RawDistanceOf(index, ts, filters, direction) ==
    LET left == {i \in BlockingIndexes(ts, filters) : i < index}
        right == {i \in BlockingIndexes(ts, filters) : i > index}
    IN  IF direction = "left"
        THEN IF left = {} THEN index
             ELSE index - (CHOOSE i \in left : \A j \in left : j <= i) - 1
        ELSE IF right = {} THEN Len(ts) - index - 1
             ELSE (CHOOSE i \in right : \A j \in right : i <= j) - index - 1

BlockingSet == BlockingIndexes(ArgTabs, gspArgs.options.blockMoveFilters)

ActiveInRange == ArgIndex \in 0..(ArgLen - 1)

ActiveMovable == ActiveInRange /\ ArgIndex \notin BlockingSet

BlockersLeft == {i \in BlockingSet : i < ArgIndex}

BlockersRight == {i \in BlockingSet : i > ArgIndex}

NearestLeft == CHOOSE i \in BlockersLeft : \A j \in BlockersLeft : j <= i

NearestRight == CHOOSE i \in BlockersRight : \A j \in BlockersRight : i <= j

\* The raw move distance of the call's direction (left or right)
RawDistance ==
    RawDistanceOf(ArgIndex, ArgTabs, gspArgs.options.blockMoveFilters,
                  Val(ArgDirection))

\* C1: with direction left and padding 0, a movable active tab with a
\* blocking tab to its left gets the distance to the nearest one, the
\* greatest blocking index i < activeIndex: activeIndex - i - 1.
C1_LeftNearestBlocker ==
    (/\ gspDone
     /\ ArgDirection = Some("left")
     /\ ArgPadding = 0
     /\ ActiveMovable
     /\ BlockersLeft # {})
    => gspResult = Some(ArgIndex - NearestLeft - 1)

\* C1 witness: a left call with two blocking tabs to the left, answered
\* with the distance to the nearer one.
C1_Witness ==
    /\ gspDone
    /\ ArgDirection = Some("left")
    /\ ArgPadding = 0
    /\ ActiveMovable
    /\ Cardinality(BlockersLeft) >= 2
    /\ gspResult = Some(ArgIndex - NearestLeft - 1)
    /\ gspResult # Some(0)

\* C2: with direction right and padding 0, a movable active tab with a
\* blocking tab to its right gets i - activeIndex - 1 for the smallest
\* blocking index i > activeIndex.
C2_RightNearestBlocker ==
    (/\ gspDone
     /\ ArgDirection = Some("right")
     /\ ArgPadding = 0
     /\ ActiveMovable
     /\ BlockersRight # {})
    => gspResult = Some(NearestRight - ArgIndex - 1)

\* C2 witness: a right call with two blocking tabs to the right, answered
\* with the distance to the nearer one.
C2_Witness ==
    /\ gspDone
    /\ ArgDirection = Some("right")
    /\ ArgPadding = 0
    /\ ActiveMovable
    /\ Cardinality(BlockersRight) >= 2
    /\ gspResult = Some(NearestRight - ArgIndex - 1)
    /\ gspResult # Some(0)

\* C3: with padding 0 and a movable active tab, no blocking tab to the left
\* makes direction left return activeIndex, and no blocking tab to the right
\* makes direction right return length - activeIndex - 1; neither case is
\* answered with "no move".
C3_EdgeFallback ==
    (gspDone /\ ArgPadding = 0 /\ ActiveMovable)
    => /\ (ArgDirection = Some("left") /\ BlockersLeft = {})
            => gspResult = Some(ArgIndex)
       /\ (ArgDirection = Some("right") /\ BlockersRight = {})
            => gspResult = Some(ArgLen - ArgIndex - 1)

\* C3 witness: a right call with blocking tabs only to the left of the
\* active tab and two or more slots to its right, answered with the
\* distance to the last index.
C3_Witness ==
    /\ gspDone
    /\ ArgPadding = 0
    /\ ActiveMovable
    /\ ArgDirection = Some("right")
    /\ BlockersRight = {}
    /\ BlockersLeft # {}
    /\ ArgLen - ArgIndex - 1 >= 2
    /\ gspResult = Some(ArgLen - ArgIndex - 1)

\* C4: whatever the direction, the padding and the other tabs, an active
\* index out of range or an active tab that is itself blocking is answered
\* with "no move" (undefined).
C4_BlockedActiveNoMove ==
    (gspDone /\ (~ActiveInRange \/ ArgIndex \in BlockingSet))
    => gspResult = Undefined

\* C4 witness: a call whose active tab is blocking, with room to its left
\* and no other blocking tab, answered with undefined.
C4_Witness ==
    /\ gspDone
    /\ ActiveInRange
    /\ BlockingSet = {ArgIndex}
    /\ ArgIndex >= 2
    /\ ArgDirection = Some("left")
    /\ gspResult = Undefined

\* C5: for direction left and right, with a blocker found or not, a padding
\* p > 0 turns the raw distance into max(0, rawDistance - p): never
\* negative, never more than the raw distance.
C5_PaddingClamp ==
    (/\ gspDone
     /\ ArgDirection \in {Some("left"), Some("right")}
     /\ ActiveMovable
     /\ ArgPadding > 0)
    => /\ gspResult = Some(Max(0, RawDistance - ArgPadding))
       /\ Val(gspResult) >= 0
       /\ Val(gspResult) <= RawDistance

\* C5 witness: a call whose padding exceeds a positive raw distance to a
\* blocking tab, answered with 0.
C5_Witness ==
    /\ gspDone
    /\ ArgDirection = Some("left")
    /\ ActiveMovable
    /\ BlockersLeft # {}
    /\ RawDistance = 1
    /\ ArgPadding = 2
    /\ gspResult = Some(0)

\* The index the active tab is sent to by a returned distance
Destination ==
    IF ArgDirection = Some("left")
    THEN ArgIndex - Val(gspResult)
    ELSE ArgIndex + Val(gspResult)

\* C6: a returned distance keeps the destination inside [0, length - 1] and
\* no blocking tab sits at any index from the destination to the original
\* position.
C6_NeverPastBlocker ==
    (gspDone /\ gspResult # Undefined)
    => /\ Destination \in 0..(ArgLen - 1)
       /\ \A i \in BlockingSet :
            ~(Destination <= i /\ i <= ArgIndex) /\ ~(ArgIndex <= i /\ i <= Destination)

\* C6 witness: a right call answered with a positive distance that stops
\* just before a blocking tab.
C6_Witness ==
    /\ gspDone
    /\ ArgDirection = Some("right")
    /\ gspResult # Undefined
    /\ Val(gspResult) >= 1
    /\ (Destination + 1) \in BlockingSet

---------------------------------------------------------------------------
(* Properties of stackTab in its host.  The effective options and the      *)
(* expected distance are written here from the settings and the group,     *)
(* not from stackTab.                                                      *)

\* A step in which stackTab ran: the throttle let the call through
StackTabRan == ~inThrottle /\ inThrottle'

\* A step in which a moveActiveEditor call was issued
MoveIssued == Len(moveCmds') > Len(moveCmds)

\* The call issued by such a step
IssuedArgs == moveCmds'[Len(moveCmds')]

\* The 0-based index of the active tab of a group, -1 without one
ActiveIndexOf(group) ==
    IF \E k \in 1..Len(group) : group[k].isActive
    THEN (CHOOSE k \in 1..Len(group) : group[k].isActive) - 1
    ELSE -1

\* The configured list of filter tokens (none configured: the empty list)
ConfiguredFilters ==
    IF config.blockMoveFilters = Undefined THEN <<>> ELSE Val(config.blockMoveFilters)

\* The effective filters: the configured list when it holds a default
\* token, else the default list
EffectiveFilters ==
    IF \E k \in 1..Len(ConfiguredFilters) : ConfiguredFilters[k] = "pinned"
    THEN ConfiguredFilters
    ELSE <<"pinned">>

\* The configured direction: right when set so, else left
EffectiveDirection == IF config.direction = Some("right") THEN "right" ELSE "left"

EffectivePadding == IF config.padding = Undefined THEN 0 ELSE Val(config.padding)

EffectiveEnabled == IF config.enabled = Undefined THEN TRUE ELSE Val(config.enabled)

\* The distance stackTab is to compute for a group with a movable active tab
ExpectedDistance(group) ==
    Max(0, RawDistanceOf(ActiveIndexOf(group), group, EffectiveFilters,
                         EffectiveDirection) - EffectivePadding)

\* No move is due: no tab sequence, no active tab, a blocking active tab, or
\* a distance of 0 after padding
NoMoveDue(group) ==
    \/ ~tabGroupsApi
    \/ ActiveIndexOf(group) = -1
    \/ ActiveIndexOf(group) \in BlockingIndexes(group, EffectiveFilters)
    \/ ExpectedDistance(group) = 0

\* A group without its active tab: the other tabs in their order
OtherTabs(group) == SelectSeq(group, LAMBDA t : ~t.isActive)

\* The tabs of a group in their order, whichever is active
TabOrder(group) == [k \in 1..Len(group) |-> [group[k] EXCEPT !.isActive = FALSE]]

\* C7 (as claimed): a move issued for the distance d, run by the host on
\* the group it was computed from, puts the active tab d slots further in
\* the configured direction and keeps the other tabs in their order.
C7_MoveByDistance ==
    [][MoveIssued =>
        LET d == ExpectedDistance(groupTabs')
            index == ActiveIndexOf(groupTabs')
            after == HostMoveActiveEditor(groupTabs', IssuedArgs)
        IN  /\ ActiveIndexOf(after) =
                    (IF EffectiveDirection = "left" THEN index - d ELSE index + d)
            /\ OtherTabs(after) = OtherTabs(groupTabs')]_vars

\* C8 (as claimed): with the option enabled false for the active tab's
\* scope, a run of stackTab issues no move.
C8_DisabledIssuesNoMove ==
    [][(StackTabRan /\ ~EffectiveEnabled) => ~MoveIssued]_vars

\* C9: a move is issued only by a run of stackTab that computed a strictly
\* positive distance, and carries it; a run with no tab sequence, no active
\* tab, a blocking active tab or a distance of 0 after padding issues
\* nothing and leaves the tab sequence as it is.
C9_MoveOnlyForPositiveDistance ==
    [][/\ MoveIssued =>
            /\ StackTabRan
            /\ ~NoMoveDue(groupTabs')
            /\ IssuedArgs.value = ExpectedDistance(groupTabs')
            /\ IssuedArgs.value > 0
       /\ (StackTabRan /\ NoMoveDue(groupTabs')) =>
            /\ moveCmds' = moveCmds
            /\ TabOrder(groupTabs') = TabOrder(groupTabs)]_vars

\* C9 witness: stackTab has just run on a group whose active tab is one
\* slot from a blocking tab with padding 2, and nothing was issued.
C9_Witness ==
    /\ inThrottle
    /\ moveCmds = <<>>
    /\ tabGroupsApi
    /\ ActiveIndexOf(groupTabs) >= 2
    /\ ActiveIndexOf(groupTabs) \notin BlockingIndexes(groupTabs, EffectiveFilters)
    /\ BlockingIndexes(groupTabs, EffectiveFilters) # {}
    /\ EffectiveDirection = "left"
    /\ RawDistanceOf(ActiveIndexOf(groupTabs), groupTabs, EffectiveFilters,
                     "left") = 1
    /\ EffectivePadding = 2

\* C10: for every configured list and every scope (undefined, null, a
\* resource), the effective filter list, and the one stackTab uses for the
\* active tab, is the configured list when it holds a token of the default
\* set and else exactly the default list; it always holds "pinned".
C10_DefaultSubstitution ==
    /\ \A scope \in {Undefined, Some("null"), Some("uri")} :
            /\ getBlockMoveFiltersOption(scope) = EffectiveFilters
            /\ \E k \in 1..Len(getBlockMoveFiltersOption(scope)) :
                    getBlockMoveFiltersOption(scope)[k] = "pinned"
    /\ \A k \in 1..Len(groupTabs) :
            groupTabs[k].isActive =>
                StackTabOptions(groupTabs[k]).blockMoveFilters = EffectiveFilters

\* C10 witness: the configured list is ["dirty"], and stackTab has run on
\* a dirty active tab with the filters ["pinned"]: it issued a move for it.
C10_Witness ==
    /\ config.blockMoveFilters = Some(<<"dirty">>)
    /\ inThrottle
    /\ moveCmds # <<>>
    /\ \E k \in 1..Len(groupTabs) :
            /\ groupTabs[k].isActive
            /\ groupTabs[k].isDirty
            /\ StackTabOptions(groupTabs[k]).blockMoveFilters = <<"pinned">>

---------------------------------------------------------------------------
(* Properties of the blocking predicate with custom filters, stated over   *)
(* the direct calls of the closure.                                        *)

\* A step in which the options were reloaded: the settings changed and the
\* configuration listener ran loadOptions
OptionsReloaded == config' # config

\* A step in which the closure was called with a new tab or a new outcome
PredicateCalled == predCall' # predCall

\* The filters of the call that such a step made
CalledFilters == getBlockMoveFiltersOption(getTabUri(Val(predCall').tab))

\* C11: after a reload of the options, the next evaluation of every path:
\* token works with the expansion of its variables against the focus
\* context of that moment: an expansion kept from before the reload is
\* never one that differs from it.
C11_ReloadInvalidatesCache ==
    [][OptionsReloaded =>
        \A f \in PathTokens :
            (IF resolvedFilters'[f] # Undefined
             THEN Val(resolvedFilters'[f])
             ELSE resolveVariables(f, activeFolder'))
            = resolveVariables(f, activeFolder')]_vars

\* Whether the token f blocks the tab when a match that throws counts as
\* "does not match"; a path: token is matched in the expansion the call
\* works with (the one in resolved, else a fresh one)
TokenBlocks(f, tab, resolved, folder) ==
    LET used == IF f \in PathTokens
                THEN IF resolved[f] # Undefined THEN Val(resolved[f])
                     ELSE resolveVariables(f, folder)
                ELSE f
    IN  \/ f = "pinned" /\ tab.isPinned
        \/ f = "dirty" /\ tab.isDirty
        \/ \E k \in 1..Len(CustomPrefixes) :
              LET prefix == CustomPrefixes[k]
              IN  /\ StartsWith(used, prefix)
                  /\ ~CustomMatchThrows(prefix, tab, used)
                  /\ CustomMatch(prefix, tab, used)

\* C12: a call of the blocking predicate never ends in an exception, and
\* its result is the disjunction over the tokens with every token whose
\* pattern match throws counted as "does not match".
C12_ThrowingTokenIsolated ==
    [][PredicateCalled =>
        /\ ~Val(predCall').threw
        /\ Val(predCall').value =
              (\E k \in 1..Len(CalledFilters) :
                  TokenBlocks(CalledFilters[k], Val(predCall').tab,
                              resolvedFilters, activeFolder))]_vars

---------------------------------------------------------------------------
(* Properties of getStackPosition followed by the move it asks for.        *)

\* C13: when a call of getStackPosition returned d > 0 and the tab was then
\* moved d slots in the call's direction, the call on the resulting tabs
\* returns 0; so no second move is ever asked for.
C13_FixedPointAfterOneMove ==
    /\ (gspDone /\ gspMoves >= 1) => gspResult = Some(0)
    /\ gspMoves <= 1

\* C13 witness: after one move to the right under a padding of at least 1,
\* the tab rests padding slots before the nearest blocking tab and the
\* call on the moved tabs returned 0.
C13_Witness ==
    /\ gspDone
    /\ gspMoves = 1
    /\ gspResult = Some(0)
    /\ ArgDirection = Some("right")
    /\ ArgPadding >= 1
    /\ BlockersRight # {}
    /\ NearestRight - ArgIndex - 1 = ArgPadding

=============================================================================
